---- MODULE Spec2Model ----
(***************************************************************************)
(* Model of backends/gpu/lib/passes/gpu_async_patterns.cc: the pattern     *)
(* that nests runs of legal operations in tfrt_gpu_conversion.async.execute *)
(* operations, and the memref folding / rewriting patterns.                 *)
(*                                                                         *)
(* The IR of one function is a record                                      *)
(*   ops    : sequence of operation records, an operation's id is its index *)
(*   blocks : sequence of blocks, a block is the sequence of its op ids     *)
(*   host   : host[b] is the operation owning block b (0: the FuncOp)       *)
(* An operand is the id of the operation whose result it uses.             *)
(***************************************************************************)
EXTENDS Integers, Sequences, FiniteSets, TLC

VARIABLES ir, target, prev, result, applied, rule, root

vars == <<ir, target, prev, result, applied, rule, root>>

\* Number of operations of the function before any pattern ran.
NumOps == 4
\* Number of pattern applications the driver makes at most.
MaxApply == 3
\* Largest number of elements of a memref type.
MaxElems == 2
\* Largest number of static offsets of a reinterpret_cast.
MaxOffsets == 2
\* Largest number of results of a tfrt.call.
MaxResults == 2

\*--------------------------------------------------------------------------
\* Types and operation records
\*--------------------------------------------------------------------------

\* A type is a scalar (integer or float) of some bit width, a complex of a
\* scalar element, or a shaped type of some element type and element count.
NoType == [tag |-> "none", bits |-> 0, num |-> 0, elem |-> "none"]

Scalar(bits) == [tag |-> "scalar", bits |-> bits, num |-> 0, elem |-> "none"]

Complex(bits) == [tag |-> "complex", bits |-> bits, num |-> 0, elem |-> "scalar"]

Shaped(elem, num) ==
    [tag |-> "shaped", bits |-> elem.bits, num |-> num, elem |-> elem.tag]

\* shaped_type.getElementType(), complex_type.getElementType()
ElementType(type) ==
    IF type.elem = "complex" THEN Complex(type.bits) ELSE Scalar(type.bits)

\* resultTypes holds the result types and callee the callee attribute of a
\* tfrt.call.
NoAttr == [srcIsBuffer |-> FALSE, n |-> 0, static |-> <<>>, value |-> 0,
           dstType |-> NoType, srcType |-> NoType,
           resultTypes |-> <<>>, callee |-> 0]

Op(kind, legal, operands, nres, attr) ==
    [kind |-> kind, legal |-> legal, operands |-> operands, nres |-> nres,
     attr |-> attr]

\* The body the AsyncExecuteOp builder creates: one block holding only the
\* terminator that returns the chain.
AsyncExecuteBody(terminator) == <<terminator>>

Range(s) == {s[i] : i \in 1..Len(s)}

IndexOf(s, x) == CHOOSE i \in 1..Len(s) : s[i] = x

\* The block holding operation o, 0 when o is in no block (erased).
ParentBlock(f, o) ==
    IF \E b \in 1..Len(f.blocks) : o \in Range(f.blocks[b])
    THEN CHOOSE b \in 1..Len(f.blocks) : o \in Range(f.blocks[b])
    ELSE 0

\* block->getParentOp()
ParentOp(f, b) == f.host[b]

IsAsyncExecuteOp(f, o) == o # 0 /\ f.ops[o].kind = "async"

\* The regions' blocks of operation o, in order.
BlocksOf(f, o) ==
    SelectSeq([b \in 1..Len(f.blocks) |-> b], LAMBDA b : f.host[b] = o)

\*--------------------------------------------------------------------------
\* Legality: ConversionTarget::isLegal with the dynamic legality of
\* tfrt.call that populateGpuAsyncConversionPatterns registers.  The answer
\* of the target for an operation of the function is the operation's field
\* legal; its answer for a kind of operation that a pattern creates or
\* rewrites is tgt[kind].
\*--------------------------------------------------------------------------

CallOpIsLegalUpToOneResult(o) == o.nres <= 1

CallOpIsLegal(o) == o.nres = 0

IsLegal(f, tgt, op) ==
    LET o == f.ops[op] IN
    CASE o.kind = "call" -> CallOpIsLegal(o)
      [] o.kind \in {"leaf", "const"} -> o.legal
      [] OTHER -> tgt[o.kind]

\*--------------------------------------------------------------------------
\* NestLegalOpsInConversionAsyncExecPattern
\*--------------------------------------------------------------------------

InsertBefore(s, x, new) ==
    LET i == IndexOf(s, x) IN
    SubSeq(s, 1, i - 1) \o <<new>> \o SubSeq(s, i, Len(s))

\* rewriter.setInsertionPoint(legal_begin);
\* rewriter.create<conversion::AsyncExecuteOp>(loc).getBody()
\* The new operation is Len(f.ops) + 1, its terminator Len(f.ops) + 2 and
\* its body block Len(f.blocks) + 1.
CreateAsyncExecuteOp(f, block, legal_begin) ==
    LET a == Len(f.ops) + 1
        t == Len(f.ops) + 2
    IN [ops |-> f.ops \o <<Op("async", FALSE, <<>>, 0, NoAttr),
                            Op("term", FALSE, <<>>, 0, NoAttr)>>,
        blocks |-> [f.blocks EXCEPT ![block] = InsertBefore(@, legal_begin, a)]
                       \o <<AsyncExecuteBody(t)>>,
        host |-> f.host \o <<a>>]

\* body->getOperations().splice(body->begin(), block->getOperations(),
\*                              first->getIterator(), last->getIterator())
SpliceMoveReversed(f, body, block, first, last) ==
    LET s == f.blocks[block]
        i == IndexOf(s, first)
        j == IndexOf(s, last)
        moved == [k \in 1..(j - i) |-> s[j - k]]
    IN [f EXCEPT !.blocks =
            [@ EXCEPT ![block] = SubSeq(s, 1, i - 1) \o SubSeq(s, j, Len(s)),
                      ![body] = moved \o @]]

SpliceCopies(f, body, block, first, last) ==
    LET s == f.blocks[block]
        i == IndexOf(s, first)
        j == IndexOf(s, last)
    IN [f EXCEPT !.blocks = [@ EXCEPT ![body] = SubSeq(s, i, j - 1) \o @]]

SpliceAtBodyEnd(f, body, block, first, last) ==
    LET s == f.blocks[block]
        i == IndexOf(s, first)
        j == IndexOf(s, last)
    IN [f EXCEPT !.blocks =
            [@ EXCEPT ![block] = SubSeq(s, 1, i - 1) \o SubSeq(s, j, Len(s)),
                      ![body] = @ \o SubSeq(s, i, j - 1)]]

Splice(f, body, block, first, last) ==
    LET s == f.blocks[block]
        i == IndexOf(s, first)
        j == IndexOf(s, last)
    IN [f EXCEPT !.blocks =
            [@ EXCEPT ![block] = SubSeq(s, 1, i - 1) \o SubSeq(s, j, Len(s)),
                      ![body] = SubSeq(s, i, j - 1) \o @]]

\* The loop of matchAndRewriteBlock.  seq is the operation list the loop
\* iterates: the splice only moves operations before the iterator, so the
\* loop visits the operations the block held on entry, in order.  st is
\* [f, result]; legal_begin is 0 for nullptr.
RECURSIVE ScanLoop(_, _, _, _, _, _)
ScanLoop(st, tgt, block, seq, i, legal_begin) ==
    IF i > Len(seq) THEN st
    ELSE LET op == seq[i] IN
         IF IsLegal(st.f, tgt, op)
         THEN ScanLoop(st, tgt, block, seq, i + 1,
                       IF legal_begin = 0 THEN op ELSE legal_begin)
         ELSE IF legal_begin = 0
         THEN ScanLoop(st, tgt, block, seq, i + 1, 0)
         ELSE LET g == CreateAsyncExecuteOp(st.f, block, legal_begin)
                  body == Len(g.blocks)
              IN ScanLoop([f |-> Splice(g, body, block, legal_begin, op),
                           result |-> TRUE],
                          tgt, block, seq, i + 1, 0)

MatchAndRewriteBlock(f, tgt, block) ==
    ScanLoop([f |-> f, result |-> FALSE], tgt, block, f.blocks[block], 1, 0)

\* func_op.walk over blocks, post-order: the blocks nested in the operations
\* of a block are visited before the block itself.
RECURSIVE WalkOps(_, _)
RECURSIVE WalkBlocks(_, _)
WalkOps(f, s) ==
    IF s = <<>> THEN <<>>
    ELSE WalkBlocks(f, BlocksOf(f, Head(s))) \o WalkOps(f, Tail(s))

WalkBlocks(f, bs) ==
    IF bs = <<>> THEN <<>>
    ELSE WalkOps(f, f.blocks[Head(bs)]) \o <<Head(bs)>> \o WalkBlocks(f, Tail(bs))

\* The callback of the walk, applied to the blocks in visiting order.  A
\* callback changes only the operation list of its own block and appends new
\* blocks, so the blocks to visit are those of the function on entry.
RECURSIVE WalkCallbacksLastResult(_, _, _)
WalkCallbacksLastResult(st, tgt, bs) ==
    IF bs = <<>> THEN st
    ELSE LET block == Head(bs) IN
         IF IsAsyncExecuteOp(st.f, ParentOp(st.f, block))
         THEN WalkCallbacksLastResult(st, tgt, Tail(bs))
         ELSE LET r == MatchAndRewriteBlock(st.f, tgt, block)
              IN WalkCallbacksLastResult([f |-> r.f, result |-> r.result],
                                         tgt, Tail(bs))

RECURSIVE WalkCallbacksEveryBlock(_, _, _)
WalkCallbacksEveryBlock(st, tgt, bs) ==
    IF bs = <<>> THEN st
    ELSE LET r == MatchAndRewriteBlock(st.f, tgt, Head(bs))
         IN WalkCallbacksEveryBlock([f |-> r.f, result |-> st.result \/ r.result],
                                    tgt, Tail(bs))

RECURSIVE WalkCallbacks(_, _, _)
WalkCallbacks(st, tgt, bs) ==
    IF bs = <<>> THEN st
    ELSE LET block == Head(bs) IN
         IF IsAsyncExecuteOp(st.f, ParentOp(st.f, block))
         THEN WalkCallbacks(st, tgt, Tail(bs))
         ELSE LET r == MatchAndRewriteBlock(st.f, tgt, block)
              IN WalkCallbacks([f |-> r.f, result |-> st.result \/ r.result],
                               tgt, Tail(bs))

MatchAndRewrite(f, tgt) ==
    WalkCallbacks([f |-> f, result |-> FALSE], tgt, WalkBlocks(f, BlocksOf(f, 0)))


\*--------------------------------------------------------------------------
\* GetTypeSizeBytes.  The result is an unsigned; the types of the model have
\* sizes of a few bytes, far from where 32 bits wrap.
\*--------------------------------------------------------------------------

RECURSIVE GetTypeSizeBytes(_)
GetTypeSizeBytes(type) ==
    CASE type.tag = "shaped" ->
            GetTypeSizeBytes(ElementType(type)) * type.num
      [] type.tag = "scalar" -> (type.bits + 7) \div 8
      [] type.tag = "complex" ->
            GetTypeSizeBytes(ElementType(type)) * 2

\*--------------------------------------------------------------------------
\* Rewriter primitives
\*--------------------------------------------------------------------------

RemoveFrom(s, x) == SelectSeq(s, LAMBDA y : y # x)

RECURSIVE Substitute(_, _, _)
Substitute(operands, old, new) ==
    IF operands = <<>> THEN <<>>
    ELSE <<IF Head(operands) = old THEN new ELSE Head(operands)>>
             \o Substitute(Tail(operands), old, new)

RECURSIVE SubstituteInOps(_, _, _)
SubstituteInOps(ops, old, new) ==
    IF ops = <<>> THEN <<>>
    ELSE <<[Head(ops) EXCEPT !.operands = Substitute(@, old, new)]>>
             \o SubstituteInOps(Tail(ops), old, new)

\* Every use of the result of old becomes a use of the result of new.
ReplaceAllUses(f, old, new) ==
    [f EXCEPT !.ops = SubstituteInOps(@, old, new)]

\* The operation leaves its block.
EraseOp(f, op) ==
    [f EXCEPT !.blocks[ParentBlock(f, op)] = RemoveFrom(@, op)]

\* rewriter.replaceOp(op, {value})
ReplaceOp(f, op, value) == EraseOp(ReplaceAllUses(f, op, value), op)

CreateOpAtBlockStart(f, before, rec) ==
    [f EXCEPT !.ops = Append(@, rec),
              !.blocks[ParentBlock(f, before)] = <<Len(f.ops) + 1>> \o @]

\* rewriter.create<...>: the new operation Len(f.ops) + 1 is inserted before
\* the operation the pattern is applied to.
CreateOp(f, before, rec) ==
    [f EXCEPT !.ops = Append(@, rec),
              !.blocks[ParentBlock(f, before)] =
                  InsertBefore(@, before, Len(f.ops) + 1)]

\* rewriter.replaceOpWithNewOp<...>(op, ...)
ReplaceOpWithNewOp(f, op, rec) ==
    LET g == CreateOp(f, op, rec) IN
    IF f.ops[op].nres = 0 THEN EraseOp(g, op)
    ELSE ReplaceOp(g, op, Len(g.ops))

\*--------------------------------------------------------------------------
\* FoldMemrefViewPattern.  The operands of a memref.view are the source, the
\* byte_shift and the sizes; attr.srcIsBuffer says that the converted source
\* has BufferType.
\*--------------------------------------------------------------------------

ViewSizes(o) == SubSeq(o.operands, 3, Len(o.operands))

\* The rewrite to tfrt_gpu.mem.view.
CreateMemView(f, view_op) ==
    LET o == f.ops[view_op]
        dst_size_bytes == GetTypeSizeBytes(o.attr.dstType)
        g == CreateOp(f, view_op,
                      Op("ucast", FALSE, <<o.operands[2]>>, 1, NoAttr))
        offset == Len(g.ops)
        h == CreateOp(g, view_op,
                      Op("const_ui64", FALSE, <<>>, 1,
                         [NoAttr EXCEPT !.value = dst_size_bytes]))
        size == Len(h.ops)
    IN ReplaceOpWithNewOp(h, view_op,
           Op("memview", FALSE, <<o.operands[1], offset, size>>, 1, NoAttr))

FoldMemrefViewIgnoresSizes(f, view_op) ==
    LET o == f.ops[view_op]
        const_offset == f.ops[o.operands[2]]
    IN IF ~o.attr.srcIsBuffer THEN [f |-> f, result |-> FALSE]
       ELSE IF ViewSizes(o) # <<>> THEN [f |-> f, result |-> FALSE]
       ELSE IF const_offset.kind = "const" /\ const_offset.attr.value = 0
       THEN [f |-> ReplaceOp(f, view_op, o.operands[1]), result |-> TRUE]
       ELSE [f |-> CreateMemView(f, view_op), result |-> TRUE]

FoldMemrefViewNeverFolds(f, view_op) ==
    LET o == f.ops[view_op]
    IN IF ~o.attr.srcIsBuffer THEN [f |-> f, result |-> FALSE]
       ELSE IF ViewSizes(o) # <<>> THEN [f |-> f, result |-> FALSE]
       ELSE [f |-> CreateMemView(f, view_op), result |-> TRUE]

FoldMemrefViewPattern(f, view_op) ==
    LET o == f.ops[view_op]
        const_offset == f.ops[o.operands[2]]
        dst_size_bytes == GetTypeSizeBytes(o.attr.dstType)
        src_size_bytes == GetTypeSizeBytes(o.attr.srcType)
    IN IF ~o.attr.srcIsBuffer THEN [f |-> f, result |-> FALSE]
       ELSE IF ViewSizes(o) # <<>> THEN [f |-> f, result |-> FALSE]
       ELSE IF /\ const_offset.kind = "const"
               /\ const_offset.attr.value = 0
               /\ src_size_bytes = dst_size_bytes
       THEN [f |-> ReplaceOp(f, view_op, o.operands[1]), result |-> TRUE]
       ELSE [f |-> CreateMemView(f, view_op), result |-> TRUE]

\*--------------------------------------------------------------------------
\* FoldMemrefReinterpretCastPattern.  The operands of the cast are the
\* source and the dynamic offsets; attr.static holds the static offsets.
\*--------------------------------------------------------------------------

CastOffsets(o) == SubSeq(o.operands, 2, Len(o.operands))

FoldMemrefReinterpretCastFirstOnly(f, cast_op) ==
    LET o == f.ops[cast_op]
    IN IF ~o.attr.srcIsBuffer THEN [f |-> f, result |-> FALSE]
       ELSE IF \/ CastOffsets(o) # <<>>
               \/ (Len(o.attr.static) > 0 /\ o.attr.static[1] # 0)
       THEN [f |-> f, result |-> FALSE]
       ELSE [f |-> ReplaceOp(f, cast_op, o.operands[1]), result |-> TRUE]

FoldMemrefReinterpretCastPattern(f, cast_op) ==
    LET o == f.ops[cast_op]
    IN IF ~o.attr.srcIsBuffer THEN [f |-> f, result |-> FALSE]
       ELSE IF \/ CastOffsets(o) # <<>>
               \/ \E n \in 1..Len(o.attr.static) : o.attr.static[n] # 0
       THEN [f |-> f, result |-> FALSE]
       ELSE [f |-> ReplaceOp(f, cast_op, o.operands[1]), result |-> TRUE]

\*--------------------------------------------------------------------------
\* RewriteMemrefAllocPattern, RewriteMemrefDeallocPattern.  The operands of
\* a memref.alloc / memref.alloca are its dynamic sizes.
\*--------------------------------------------------------------------------

RewriteMemrefAllocPattern(f, alloc_op) ==
    [f |-> ReplaceOpWithNewOp(f, alloc_op,
               Op("gpu_alloc", FALSE, <<>>, 1,
                  [NoAttr EXCEPT !.dstType = f.ops[alloc_op].attr.dstType])),
     result |-> TRUE]

RewriteMemrefDeallocPattern(f, dealloc_op) ==
    [f |-> ReplaceOpWithNewOp(f, dealloc_op,
               Op("gpu_dealloc", FALSE, <<f.ops[dealloc_op].operands[1]>>, 0,
                  NoAttr)),
     result |-> TRUE]

\*--------------------------------------------------------------------------
\* ConvertOpTypesPattern<OpTy>, for tfrt.call and tfrt.return.  The type
\* converter turns a memref into a buffer, keeps buffers and chains, and has
\* no conversion for a tensor.
\*--------------------------------------------------------------------------

ResultTypes == {"memref", "buffer", "chain", "tensor"}

\* typeConverter->convertType(type): the converted type, "failed" for none.
ConvertType(type) ==
    CASE type = "memref" -> "buffer"
      [] type \in {"buffer", "chain"} -> type
      [] OTHER -> "failed"

\* typeConverter->convertTypes(types, results): stops at the first type
\* whose conversion fails.
RECURSIVE ConvertTypes(_)
ConvertTypes(types) ==
    IF types = <<>> THEN [failed |-> FALSE, types |-> <<>>]
    ELSE IF ConvertType(Head(types)) = "failed"
    THEN [failed |-> TRUE, types |-> <<>>]
    ELSE LET rest == ConvertTypes(Tail(types)) IN
         IF rest.failed THEN rest
         ELSE [failed |-> FALSE,
               types |-> <<ConvertType(Head(types))>> \o rest.types]

RECURSIVE ConvertConvertibleTypes(_)
ConvertConvertibleTypes(types) ==
    IF types = <<>> THEN <<>>
    ELSE <<IF ConvertType(Head(types)) = "failed" THEN Head(types)
           ELSE ConvertType(Head(types))>>
             \o ConvertConvertibleTypes(Tail(types))

ConvertOpTypesKeepsFailedTypes(f, op) ==
    LET o == f.ops[op]
        result_types == ConvertConvertibleTypes(o.attr.resultTypes)
    IN [f |-> ReplaceOpWithNewOp(f, op,
                  Op(o.kind, o.legal, o.operands, Len(result_types),
                     [o.attr EXCEPT !.resultTypes = result_types])),
        result |-> TRUE]

\* adaptor.getOperands() are the operands of op, with the values that
\* earlier rewrites replaced already substituted.
ConvertOpTypesPattern(f, op) ==
    LET o == f.ops[op]
        converted == ConvertTypes(o.attr.resultTypes)
        result_types == converted.types
    IN IF converted.failed THEN [f |-> f, result |-> FALSE]
       ELSE [f |-> ReplaceOpWithNewOp(f, op,
                       Op(o.kind, o.legal, o.operands, Len(result_types),
                          [o.attr EXCEPT !.resultTypes = result_types])),
             result |-> TRUE]

\* The operations of kind k that are in a block: the operations the driver
\* offers to the pattern whose root is k.
Candidates(f, kinds) ==
    {o \in 1..Len(f.ops) : f.ops[o].kind \in kinds /\ ParentBlock(f, o) # 0}

\*--------------------------------------------------------------------------
\* The functions the pattern is applied to
\*--------------------------------------------------------------------------

OpIds == 1..NumOps

\* Operations are numbered in program order (pre-order); parent[o] is the
\* operation whose region holds o, 0 for the function body.
RECURSIVE Ancestors(_, _)
Ancestors(parent, o) ==
    IF o = 0 \/ parent[o] >= o THEN {}
    ELSE {parent[o]} \cup Ancestors(parent, parent[o])

IsPreOrder(parent) ==
    \A o \in OpIds :
        /\ parent[o] < o
        /\ o > 1 => parent[o] \in {o - 1} \cup Ancestors(parent, o - 1)

\* d's result is visible at o: d comes before o in a block enclosing o.
Visible(parent, d, o) ==
    /\ d < o
    /\ d \notin Ancestors(parent, o)
    /\ parent[d] \in Ancestors(parent, o)

Hosts(parent) == {0} \cup {parent[o] : o \in OpIds}

HostSeq(parent) ==
    SelectSeq([i \in 1..(NumOps + 1) |-> i - 1], LAMBDA h : h \in Hosts(parent))

FuncIR(parent, legal, uses) ==
    [ops |-> [o \in OpIds |->
                Op("leaf", legal[o],
                   IF uses[o] = 0 THEN <<>> ELSE <<uses[o]>>, 1, NoAttr)],
     blocks |-> [b \in 1..Len(HostSeq(parent)) |->
                   SelectSeq([o \in OpIds |-> o],
                             LAMBDA o : parent[o] = HostSeq(parent)[b])],
     host |-> HostSeq(parent)]

Parents == {parent \in [OpIds -> 0..(NumOps - 1)] : IsPreOrder(parent)}

Uses(parent) ==
    {uses \in [OpIds -> 0..(NumOps - 1)] :
        \A o \in OpIds : uses[o] # 0 => Visible(parent, uses[o], o)}

\* The legality the conversion target gives the kinds of operation that the
\* patterns create.  The terminator of an async.execute body is never
\* queried: its block is skipped.
Targets == {[async |-> a, term |-> FALSE] : a \in BOOLEAN}

Init ==
    /\ \E parent \in Parents :
       \E uses \in Uses(parent) :
       \E legal \in [OpIds -> BOOLEAN] :
          ir = FuncIR(parent, legal, uses)
    /\ target \in Targets
    /\ prev = ir
    /\ result = "none"
    /\ applied = 0
    /\ rule = "none"
    /\ root = 0

\* The driver applies the pattern to the function, again after each success.
ApplyNestLegalOps ==
    /\ applied < MaxApply
    /\ ~(rule = "nest" /\ result = "failure")
    /\ LET r == MatchAndRewrite(ir, target) IN
          /\ ir' = r.f
          /\ result' = IF r.result THEN "success" ELSE "failure"
    /\ prev' = ir
    /\ applied' = applied + 1
    /\ rule' = "nest"
    /\ root' = 0
    /\ UNCHANGED target

Next == ApplyNestLegalOps

Spec == Init /\ [][Next]_vars

\*--------------------------------------------------------------------------
\* The memref patterns and the nesting pattern applied to one block:
\*   1: the operation producing the source buffer
\*   2: the operation producing the byte shift / dynamic offset / dynamic
\*      size: an arith.constant index, or another operation
\*   3: a memref.view, reinterpret_cast, alloc, alloca or dealloc
\*   4: an operation using the result of 3 (the buffer of 1 if 3 has none)
\*--------------------------------------------------------------------------

ElementTypes == {Scalar(1), Scalar(16), Complex(8)}

DstTypes == {Shaped(e, n) : e \in ElementTypes, n \in 1..MaxElems}

\* The source of a view is a one-dimensional memref of i8.
SrcTypes == {Shaped(Scalar(8), n) : n \in 1..MaxElems}

\* Static offsets; -1 stands for the marker of a dynamic offset, which comes
\* with one dynamic offset operand.
StaticOffsets ==
    UNION {[1..n -> {0, 1, -1}] : n \in 1..MaxOffsets}

RECURSIVE Repeat(_, _)
Repeat(x, n) == IF n = 0 THEN <<>> ELSE <<x>> \o Repeat(x, n - 1)

NumDynamic(static) == Cardinality({n \in 1..Len(static) : static[n] = -1})

ViewOps ==
    {Op("view", FALSE, <<1, 2>> \o Repeat(2, n), 1,
        [NoAttr EXCEPT !.srcIsBuffer = sb, !.n = n, !.dstType = dt, !.srcType = st]) :
        sb \in BOOLEAN, n \in {0, 1}, dt \in DstTypes, st \in SrcTypes}

CastOps ==
    {Op("cast", FALSE, <<1>> \o Repeat(2, NumDynamic(static)), 1,
        [NoAttr EXCEPT !.srcIsBuffer = sb, !.n = NumDynamic(static),
                       !.static = static]) :
        sb \in BOOLEAN, static \in StaticOffsets}

AllocOps ==
    {Op(k, FALSE, Repeat(2, n), 1, [NoAttr EXCEPT !.n = n]) :
        k \in {"alloc", "alloca"}, n \in {0, 1}}

DeallocOps == {Op("dealloc", FALSE, <<1>>, 0, NoAttr)}

MemrefOps == ViewOps \cup CastOps \cup AllocOps \cup DeallocOps

ShiftOps ==
    {Op("const", l, <<>>, 1, [NoAttr EXCEPT !.value = v]) :
        l \in BOOLEAN, v \in {0, 1}}
    \cup {Op("leaf", l, <<>>, 1, NoAttr) : l \in BOOLEAN}

BlockIR(first, shift, memref, last) ==
    [ops |-> <<Op("leaf", first, <<>>, 1, NoAttr),
               shift,
               memref,
               Op("leaf", last, IF memref.nres = 0 THEN <<1>> ELSE <<3>>, 1,
                  NoAttr)>>,
     blocks |-> <<<<1, 2, 3, 4>>>>,
     host |-> <<0>>]

\* The legality of the memref operations (m) and of the operations the
\* patterns create (g) in the conversion target.
RuleTargets ==
    {[async |-> a, term |-> FALSE, view |-> m, cast |-> m, alloc |-> m,
      alloca |-> m, dealloc |-> m, ucast |-> g, const_ui64 |-> g,
      memview |-> g, gpu_alloc |-> g, gpu_dealloc |-> g] :
        a \in BOOLEAN, m \in BOOLEAN, g \in BOOLEAN}

InitRules ==
    /\ \E first \in BOOLEAN :
       \E shift \in ShiftOps :
       \E memref \in MemrefOps :
       \E last \in BOOLEAN :
          ir = BlockIR(first, shift, memref, last)
    /\ target \in RuleTargets
    /\ prev = ir
    /\ result = "none"
    /\ applied = 0
    /\ rule = "none"
    /\ root = 0

\* The driver applies pattern to operation op.
ApplyTo(name, op, r) ==
    /\ applied < MaxApply
    /\ ~(rule = name /\ result = "failure")
    /\ ir' = r.f
    /\ result' = IF r.result THEN "success" ELSE "failure"
    /\ prev' = ir
    /\ applied' = applied + 1
    /\ rule' = name
    /\ root' = op
    /\ UNCHANGED target

ApplyFoldMemrefView ==
    \E op \in Candidates(ir, {"view"}) :
        ApplyTo("view", op, FoldMemrefViewPattern(ir, op))

ApplyFoldMemrefReinterpretCast ==
    \E op \in Candidates(ir, {"cast"}) :
        ApplyTo("cast", op, FoldMemrefReinterpretCastPattern(ir, op))

ApplyRewriteMemrefAlloc ==
    \E op \in Candidates(ir, {"alloc", "alloca"}) :
        ApplyTo("alloc", op, RewriteMemrefAllocPattern(ir, op))

ApplyRewriteMemrefDealloc ==
    \E op \in Candidates(ir, {"dealloc"}) :
        ApplyTo("dealloc", op, RewriteMemrefDeallocPattern(ir, op))

NextRules ==
    \/ ApplyNestLegalOps
    \/ ApplyFoldMemrefView
    \/ ApplyFoldMemrefReinterpretCast
    \/ ApplyRewriteMemrefAlloc
    \/ ApplyRewriteMemrefDealloc

SpecRules == InitRules /\ [][NextRules]_vars

\*--------------------------------------------------------------------------
\* The nesting pattern applied to functions that hold a tfrt.call
\*--------------------------------------------------------------------------

\* Operation call_op of the function is a tfrt.call with num_results results;
\* the others are as in FuncIR.  legal[call_op] is what a static entry of the
\* target would answer for the call.
CallFuncIR(parent, legal, call_op, num_results) ==
    [ops |-> [o \in OpIds |->
                IF o = call_op
                THEN Op("call", legal[o], <<>>, num_results, NoAttr)
                ELSE Op("leaf", legal[o], <<>>, 1, NoAttr)],
     blocks |-> FuncIR(parent, legal, [o \in OpIds |-> 0]).blocks,
     host |-> HostSeq(parent)]

InitCalls ==
    /\ \E parent \in Parents :
       \E legal \in [OpIds -> BOOLEAN] :
       \E call_op \in OpIds :
       \E num_results \in 0..MaxResults :
          ir = CallFuncIR(parent, legal, call_op, num_results)
    /\ target \in Targets
    /\ prev = ir
    /\ result = "none"
    /\ applied = 0
    /\ rule = "none"
    /\ root = 0

NextCalls == ApplyNestLegalOps

SpecCalls == InitCalls /\ [][NextCalls]_vars

\*--------------------------------------------------------------------------
\* ConvertOpTypesPattern applied to one block:
\*   1, 2: operations producing values
\*   3: a tfrt.call or a tfrt.return taking some of these values
\*   4: an operation using the results of 3 (the value of 1 if 3 has none)
\*--------------------------------------------------------------------------

TypeLists == UNION {[1..n -> ResultTypes] : n \in 0..MaxResults}

OperandLists == {<<>>, <<1>>, <<1, 2>>, <<2, 1>>}

CallOps ==
    {Op("call", FALSE, operands, Len(types),
        [NoAttr EXCEPT !.resultTypes = types, !.callee = callee]) :
        operands \in OperandLists, types \in TypeLists, callee \in {1, 2}}

ReturnOps == {Op("return", FALSE, operands, 0, NoAttr) : operands \in OperandLists}

InitConvert ==
    /\ \E op \in CallOps \cup ReturnOps :
          ir = BlockIR(FALSE, Op("leaf", FALSE, <<>>, 1, NoAttr), op, FALSE)
    /\ target \in RuleTargets
    /\ prev = ir
    /\ result = "none"
    /\ applied = 0
    /\ rule = "none"
    /\ root = 0

ApplyConvertOpTypes ==
    \E op \in Candidates(ir, {"call", "return"}) :
        ApplyTo("convert", op, ConvertOpTypesPattern(ir, op))

NextConvert == ApplyConvertOpTypes

SpecConvert == InitConvert /\ [][NextConvert]_vars

\*--------------------------------------------------------------------------
\* Properties of NestLegalOpsInConversionAsyncExecPattern
\*--------------------------------------------------------------------------

\* The blocks the last application scanned: those of the function on entry
\* whose parent operation is no async.execute.
Scanned == {b \in 1..Len(prev.blocks) : ~IsAsyncExecuteOp(prev, prev.host[b])}

\* The operations the last application created.
NewOps == (Len(prev.ops) + 1)..Len(ir.ops)

Nested == applied > 0 /\ rule = "nest"

LegalAt(s, i) == IsLegal(prev, target, s[i])

\* s[i] is in a legal run that an illegal operation follows.
Outlined(s, i) == LegalAt(s, i) /\ \E j \in (i + 1)..Len(s) : ~LegalAt(s, j)

\* s[i..j] is a maximal run of legal operations, followed by an illegal one.
MaximalRun(s, i, j) ==
    /\ i <= j
    /\ j < Len(s)
    /\ \A k \in i..j : LegalAt(s, k)
    /\ ~LegalAt(s, j + 1)
    /\ i > 1 => ~LegalAt(s, i - 1)

BodyBlock(f, a) == CHOOSE b \in 1..Len(f.blocks) : f.host[b] = a

\* The operations of region a before its terminator.
RegionRun(f, a) ==
    LET body == f.blocks[BodyBlock(f, a)] IN SubSeq(body, 1, Len(body) - 1)

EndsWithTerminator(f, a) ==
    LET body == f.blocks[BodyBlock(f, a)] IN
    Len(body) >= 1 /\ f.ops[body[Len(body)]].kind = "term"

\* Block t with every region in fresh replaced by the operations it holds.
RECURSIVE Flatten(_, _, _)
Flatten(f, fresh, t) ==
    IF t = <<>> THEN <<>>
    ELSE (IF Head(t) \in fresh THEN RegionRun(f, Head(t)) ELSE <<Head(t)>>)
             \o Flatten(f, fresh, Tail(t))

\* C1: one scan of a block replaces every maximal run of legal operations
\* that an illegal operation follows by one async.execute at the run's
\* position holding the run in order; a run that reaches the end of the
\* block stays in place.
C1_ScanOutlinesRuns ==
    Nested =>
        \A b \in Scanned :
            LET s == prev.blocks[b]
                t == ir.blocks[b]
            IN /\ Flatten(ir, NewOps, t) = s
               /\ \A k \in 1..Len(t) :
                     IF t[k] \in NewOps
                     THEN /\ ir.ops[t[k]].kind = "async"
                          /\ Cardinality({c \in 1..Len(ir.blocks) :
                                            ir.host[c] = t[k]}) = 1
                          /\ EndsWithTerminator(ir, t[k])
                          /\ \E i, j \in 1..Len(s) :
                                /\ MaximalRun(s, i, j)
                                /\ RegionRun(ir, t[k]) = SubSeq(s, i, j)
                     ELSE ~Outlined(s, IndexOf(s, t[k]))

\* [legalA, legalB, illegalC, legalD] became [async{legalA, legalB}, illegalC,
\* legalD].
C1_Witness ==
    /\ Nested /\ applied = 1
    /\ prev.blocks[1] = <<1, 2, 3, 4>>
    /\ prev.ops[1].legal /\ prev.ops[2].legal
    /\ ~prev.ops[3].legal /\ prev.ops[4].legal
    /\ ir.blocks[1] = <<NumOps + 1, 3, 4>>
    /\ ir.blocks[2] = <<1, 2, NumOps + 2>>

\* d is defined before position k of block b: earlier in b, or before the
\* operation holding b in an enclosing block.
RECURSIVE DefinedBefore(_, _, _, _)
DefinedBefore(f, d, b, k) ==
    \/ \E i \in 1..(k - 1) : f.blocks[b][i] = d
    \/ /\ f.host[b] # 0
       /\ ParentBlock(f, f.host[b]) # 0
       /\ LET pb == ParentBlock(f, f.host[b])
          IN DefinedBefore(f, d, pb, IndexOf(f.blocks[pb], f.host[b]))

BlockInvariant(f) ==
    \A b \in 1..Len(f.blocks) :
        \A k \in 1..Len(f.blocks[b]) :
            LET operands == f.ops[f.blocks[b][k]].operands IN
            \A n \in 1..Len(operands) : DefinedBefore(f, operands[n], b, k)

\* C2: after an application every operand of every operation still refers to
\* a result defined earlier in the same block or in an enclosing block.
C2_BlockInvariantKept == Nested /\ BlockInvariant(prev) => BlockInvariant(ir)

\* The operations in the blocks of f, block after block.
RECURSIVE Concat(_)
Concat(blocks) ==
    IF blocks = <<>> THEN <<>> ELSE Head(blocks) \o Concat(Tail(blocks))

\* The operations of old are operations of block s, in the order of s.
InOrderOf(old, s) ==
    /\ \A k \in 1..Len(old) : old[k] \in Range(s)
    /\ \A k \in 1..(Len(old) - 1) : IndexOf(s, old[k]) < IndexOf(s, old[k + 1])

\* C3: an application creates, duplicates and removes no operation that was
\* there before; operations keep their operands and their relative order,
\* and an operation changes block only by moving into a new region.
C3_OperationsPreserved ==
    Nested =>
        /\ SubSeq(ir.ops, 1, Len(prev.ops)) = prev.ops
        /\ \A o \in NewOps : ir.ops[o].kind \in {"async", "term"}
        /\ Cardinality(Range(Concat(ir.blocks))) = Len(Concat(ir.blocks))
        /\ Range(Concat(ir.blocks)) \ NewOps = Range(Concat(prev.blocks))
        /\ \A c \in 1..Len(ir.blocks) :
              LET old == SelectSeq(ir.blocks[c], LAMBDA o : o \notin NewOps) IN
              old # <<>> =>
                  LET b == ParentBlock(prev, old[1]) IN
                  /\ InOrderOf(old, prev.blocks[b])
                  /\ \/ c = b
                     \/ c > Len(prev.blocks) /\ ir.host[c] \in NewOps

Before(f, o, p) ==
    /\ ParentBlock(f, o) # 0
    /\ ParentBlock(f, o) = ParentBlock(f, p)
    /\ LET s == f.blocks[ParentBlock(f, o)] IN IndexOf(s, o) < IndexOf(s, p)

\* An operation with an operand moved into a new region.
C3_Witness ==
    /\ Nested
    /\ \E o \in 1..Len(prev.ops) :
          /\ ParentBlock(ir, o) # ParentBlock(prev, o)
          /\ prev.ops[o].operands # <<>>
          /\ \E p \in 1..Len(prev.ops) : p # o /\ Before(ir, o, p)

\* C4: an async.execute that an earlier application created stays where it
\* is: no later application moves it into another region or dissolves it.
C4_RegionsStay ==
    Nested =>
        \A a \in 1..Len(prev.ops) :
            prev.ops[a].kind = "async" =>
                /\ ParentBlock(ir, a) = ParentBlock(prev, a)
                /\ ir.blocks[BodyBlock(ir, a)] = prev.blocks[BodyBlock(prev, a)]

\* C5: the application reports success exactly when it created a region in
\* some block, and after a failure every block is as it was.
C5_SuccessIffExtraction ==
    Nested =>
        /\ result = "success" <=>
              \E a \in NewOps : ir.ops[a].kind = "async" /\ ParentBlock(ir, a) # 0
        /\ result = "failure" => ir = prev
        /\ result \in {"success", "failure"}

\* Success from an extraction in a nested block only.
C5_Witness ==
    /\ Nested
    /\ result = "success"
    /\ ir.blocks[1] = prev.blocks[1]
    /\ Len(prev.blocks) > 1

\* [illegalA, legalB, legalC] alone: failure and no change.
C5_WitnessFailure ==
    /\ Nested
    /\ result = "failure"
    /\ Len(prev.blocks[1]) = NumOps
    /\ ~prev.ops[1].legal
    /\ \A o \in 2..NumOps : prev.ops[o].legal

\*--------------------------------------------------------------------------
\* Properties of the memref patterns
\*--------------------------------------------------------------------------

\* The pattern whose root is the kind of operation op, applied to op.
PatternFor(f, op) ==
    CASE f.ops[op].kind = "view" -> FoldMemrefViewPattern(f, op)
      [] f.ops[op].kind = "cast" -> FoldMemrefReinterpretCastPattern(f, op)
      [] f.ops[op].kind \in {"alloc", "alloca"} -> RewriteMemrefAllocPattern(f, op)
      [] f.ops[op].kind = "dealloc" -> RewriteMemrefDeallocPattern(f, op)

\* An operation as the structure of the function shows it: the operations
\* of the function on entry by their id, the created ones by their kind.
Ref(f, o) == [id |-> IF o <= Len(ir.ops) THEN o ELSE 0, kind |-> f.ops[o].kind]

RECURSIVE Structure(_, _)
Structure(f, s) ==
    [k \in 1..Len(s) |->
        [op |-> Ref(f, s[k]),
         operands |-> [n \in 1..Len(f.ops[s[k]].operands) |->
                          Ref(f, f.ops[s[k]].operands[n])],
         regions |-> LET bs == BlocksOf(f, s[k]) IN
                     [r \in 1..Len(bs) |-> Structure(f, f.blocks[bs[r]])]]]

PatternThenNest(f, op) == MatchAndRewrite(PatternFor(f, op).f, target).f

NestThenPattern(f, op) == PatternFor(MatchAndRewrite(f, target).f, op).f

Commute(f, op) ==
    LET a == PatternThenNest(f, op)
        b == NestThenPattern(f, op)
    IN Structure(a, a.blocks[1]) = Structure(b, b.blocks[1])

\* The pattern puts operations in the place of op, each with the legality
\* of op, or fails to match.
KeepsLegality(f, op) ==
    LET r == PatternFor(f, op) IN
    \/ ~r.result
    \/ /\ Len(r.f.ops) > Len(f.ops)
       /\ \A n \in (Len(f.ops) + 1)..Len(r.f.ops) :
             IsLegal(r.f, target, n) = IsLegal(f, target, op)

Untouched == applied = 0

MemrefKinds == {"view", "cast", "alloc", "alloca", "dealloc"}

\* C6 as stated: for every memref operation, applying its pattern and then
\* the nesting pattern gives the same regions as the other order.
C6_PatternsCommute ==
    Untouched => \A op \in Candidates(ir, MemrefKinds) : Commute(ir, op)

\* C6 amended: the two orders give the same regions when the pattern puts
\* operations of the same legality in the place of the operation.
C6_CommuteWhenLegalityKept ==
    Untouched =>
        \A op \in Candidates(ir, MemrefKinds) :
            KeepsLegality(ir, op) => Commute(ir, op)

\* The nesting pattern ran after an allocation was rewritten to a gpu.alloc
\* of the same legality, and the gpu.alloc is in a region.
C6_Witness ==
    /\ applied = 2 /\ rule = "nest" /\ result = "success"
    /\ target.alloc = target.gpu_alloc
    /\ \E o \in 1..Len(ir.ops) :
          /\ ir.ops[o].kind = "gpu_alloc"
          /\ ParentBlock(ir, o) > 1

\* The view the last application was given had a BufferType source, no
\* sizes and a constant byte shift of zero.
ZeroOffsetView ==
    /\ applied > 0 /\ rule = "view"
    /\ LET o == prev.ops[root] IN
          /\ o.attr.srcIsBuffer
          /\ ViewSizes(o) = <<>>
          /\ prev.ops[o.operands[2]].kind = "const"
          /\ prev.ops[o.operands[2]].attr.value = 0

SameByteSize ==
    GetTypeSizeBytes(prev.ops[root].attr.dstType)
        = GetTypeSizeBytes(prev.ops[root].attr.srcType)

\* C7 as stated: a zero-offset view whose destination byte size differs from
\* the source's is declined: failure, no new operation, view unchanged.
C7_SizeMismatchDeclined ==
    ZeroOffsetView /\ ~SameByteSize => result = "failure" /\ ir = prev

\* The uses of root in prev are uses of value in ir, other operands are kept.
UsesRedirected(value) ==
    \A o \in 1..Len(prev.ops) :
        /\ Len(ir.ops[o].operands) = Len(prev.ops[o].operands)
        /\ \A n \in 1..Len(prev.ops[o].operands) :
              ir.ops[o].operands[n] =
                  IF prev.ops[o].operands[n] = root THEN value
                  ELSE prev.ops[o].operands[n]

\* C7 amended: such a view is rewritten: success, and in its place a cast of
\* the byte shift, a constant of the destination byte size and a mem.view of
\* the source, the cast and the constant, which takes over the view's uses.
C7_SizeMismatchRewritten ==
    ZeroOffsetView /\ ~SameByteSize =>
        LET n == Len(prev.ops)
            b == ParentBlock(prev, root)
            k == IndexOf(prev.blocks[b], root)
            o == prev.ops[root]
        IN /\ result = "success"
           /\ Len(ir.ops) = n + 3
           /\ ir.ops[n + 1].kind = "ucast"
           /\ ir.ops[n + 1].operands = <<o.operands[2]>>
           /\ ir.ops[n + 2].kind = "const_ui64"
           /\ ir.ops[n + 2].attr.value = GetTypeSizeBytes(o.attr.dstType)
           /\ ir.ops[n + 3].kind = "memview"
           /\ ir.ops[n + 3].operands = <<o.operands[1], n + 1, n + 2>>
           /\ ir.blocks[b] = SubSeq(prev.blocks[b], 1, k - 1)
                                 \o <<n + 1, n + 2, n + 3>>
                                 \o SubSeq(prev.blocks[b], k + 1, Len(prev.blocks[b]))
           /\ UsesRedirected(n + 3)

C7_Witness ==
    /\ ZeroOffsetView /\ ~SameByteSize
    /\ result = "success"
    /\ \E o \in 1..Len(ir.ops) : ir.ops[o].kind = "memview"

\* C8: the allocation pattern rewrites the allocation to a gpu.alloc
\* exactly when the allocation has no dynamic sizes; an allocation with
\* dynamic sizes is left as it is.
C8_AllocRewrittenIffStatic ==
    applied > 0 /\ rule = "alloc" =>
        LET static == prev.ops[root].operands = <<>> IN
        /\ static => /\ result = "success"
                     /\ ParentBlock(ir, root) = 0
                     /\ ir.ops[Len(ir.ops)].kind = "gpu_alloc"
                     /\ ir.ops[Len(ir.ops)].operands = <<>>
        /\ ~static => ir = prev

\* C9: for a cast of a BufferType source, the pattern replaces the cast by
\* its source exactly when the cast has no dynamic offset operand and all
\* static offsets are zero; otherwise it fails and changes nothing.
C9_CastFoldedIffZeroOffsets ==
    applied > 0 /\ rule = "cast" /\ prev.ops[root].attr.srcIsBuffer =>
        LET o == prev.ops[root]
            zero == /\ CastOffsets(o) = <<>>
                    /\ \A n \in 1..Len(o.attr.static) : o.attr.static[n] = 0
        IN IF zero
           THEN /\ result = "success"
                /\ ParentBlock(ir, root) = 0
                /\ Len(ir.ops) = Len(prev.ops)
                /\ UsesRedirected(o.operands[1])
                /\ ir.blocks = EraseOp(prev, root).blocks
           ELSE result = "failure" /\ ir = prev

\* A cast with static offsets <<0, 0>> was folded, and one with a non-zero
\* static offset after a zero one was declined.
C9_Witness ==
    /\ applied > 0 /\ rule = "cast" /\ prev.ops[root].attr.srcIsBuffer
    /\ result = "success"
    /\ Len(prev.ops[root].attr.static) = MaxOffsets
    /\ prev.ops[4].operands = <<3>> /\ ir.ops[4].operands = <<1>>

C9_WitnessDeclined ==
    /\ applied > 0 /\ rule = "cast" /\ prev.ops[root].attr.srcIsBuffer
    /\ result = "failure"
    /\ prev.ops[root].attr.static = <<0, 1>>

\* C10: a zero-offset view of equal byte sizes is replaced by its source and
\* nothing is created; no memref.view is left for the pattern to match.
C10_ViewFoldedToSource ==
    ZeroOffsetView /\ SameByteSize =>
        /\ result = "success"
        /\ Len(ir.ops) = Len(prev.ops)
        /\ ir.blocks = EraseOp(prev, root).blocks
        /\ UsesRedirected(prev.ops[root].operands[1])
        /\ Candidates(ir, {"view"}) = {}

C10_Witness ==
    /\ ZeroOffsetView /\ SameByteSize
    /\ result = "success"
    /\ prev.ops[4].operands = <<3>> /\ ir.ops[4].operands = <<1>>
    /\ prev.ops[root].attr.dstType.elem = "complex"

\*--------------------------------------------------------------------------
\* Properties of the legality of tfrt.call
\*--------------------------------------------------------------------------

\* Legality as the registration of tfrt.call states it: a call is legal
\* exactly when it has no results; other operations as the target answers.
ZeroResultLegal(f, op) ==
    IF f.ops[op].kind = "call" THEN f.ops[op].nres = 0
    ELSE IsLegal(f, target, op)

\* C11: a tfrt.call is legal iff it has zero results, wherever it stands in
\* its block: a zero-result call that an illegal operation follows in its
\* block is moved into a new async.execute, a zero-result call that none
\* follows stays; a call with results stays in its block, and what precedes
\* it there is an illegal operation or the async.execute holding the run
\* that the call ended.
C11_CallLegalIffNoResults ==
    Nested =>
        \A b \in Scanned :
            LET s == prev.blocks[b]
                t == ir.blocks[b]
            IN \A i \in 1..Len(s) :
                  prev.ops[s[i]].kind = "call" =>
                      LET followed == \E j \in (i + 1)..Len(s) :
                                          ~ZeroResultLegal(prev, s[j])
                          now == ParentBlock(ir, s[i])
                      IN IF prev.ops[s[i]].nres = 0
                         THEN IF followed
                              THEN /\ ir.host[now] \in NewOps
                                   /\ ir.ops[ir.host[now]].kind = "async"
                              ELSE now = b
                         ELSE /\ now = b
                              /\ LET k == IndexOf(t, s[i]) IN
                                 k > 1 =>
                                    IF i > 1 /\ ZeroResultLegal(prev, s[i - 1])
                                    THEN /\ t[k - 1] \in NewOps
                                         /\ s[i - 1] \in
                                              Range(RegionRun(ir, t[k - 1]))
                                    ELSE t[k - 1] = s[i - 1]

\* [legal, call with no results, call-free illegal] became
\* [async{legal, call}, illegal].
C11_Witness ==
    /\ Nested /\ applied = 1
    /\ \E b \in Scanned :
          LET s == prev.blocks[b] IN
          /\ Len(s) >= 3
          /\ prev.ops[s[1]].kind = "leaf" /\ prev.ops[s[1]].legal
          /\ prev.ops[s[2]].kind = "call" /\ prev.ops[s[2]].nres = 0
          /\ ~prev.ops[s[2]].legal
          /\ prev.ops[s[3]].kind = "leaf" /\ ~prev.ops[s[3]].legal
          /\ ir.host[ParentBlock(ir, s[2])] \in NewOps
          /\ ParentBlock(ir, s[1]) = ParentBlock(ir, s[2])

\* [legal, call with results, ...] became [async{legal}, call, ...].
C11_WitnessResults ==
    /\ Nested /\ applied = 1
    /\ \E b \in Scanned :
          LET s == prev.blocks[b] IN
          /\ Len(s) >= 2
          /\ prev.ops[s[1]].kind = "leaf" /\ prev.ops[s[1]].legal
          /\ prev.ops[s[2]].kind = "call" /\ prev.ops[s[2]].nres > 0
          /\ prev.ops[s[2]].legal
          /\ ir.blocks[b][2] = s[2]
          /\ ir.blocks[b][1] \in NewOps

\*--------------------------------------------------------------------------
\* Properties of ConvertOpTypesPattern
\*--------------------------------------------------------------------------

Converted == applied > 0 /\ rule = "convert"

SomeResultTypeFails ==
    \E n \in 1..Len(prev.ops[root].attr.resultTypes) :
        ConvertType(prev.ops[root].attr.resultTypes[n]) = "failed"

\* C12: when the conversion of some result type of the call or return
\* fails, the pattern fails and the function is unchanged; otherwise it
\* succeeds and in the place of the operation stands a new operation of the
\* same kind whose result types are the converted ones, in order, whose
\* operands are those of the operation, in order, and whose attributes are
\* those of the operation; the new operation takes over the uses.
C12_ConvertAllOrNothing ==
    Converted =>
        LET o == prev.ops[root]
            new == Len(prev.ops) + 1
            b == ParentBlock(prev, root)
        IN IF SomeResultTypeFails
           THEN result = "failure" /\ ir = prev
           ELSE /\ result = "success"
                /\ Len(ir.ops) = new
                /\ ir.ops[new].kind = o.kind
                /\ Len(ir.ops[new].attr.resultTypes) = Len(o.attr.resultTypes)
                /\ \A n \in 1..Len(o.attr.resultTypes) :
                      ir.ops[new].attr.resultTypes[n] =
                          ConvertType(o.attr.resultTypes[n])
                /\ ir.ops[new].nres = o.nres
                /\ ir.ops[new].operands = o.operands
                /\ ir.ops[new].attr.callee = o.attr.callee
                /\ [ir.ops[new].attr EXCEPT !.resultTypes = <<>>] =
                       [o.attr EXCEPT !.resultTypes = <<>>]
                /\ Len(ir.blocks[b]) = Len(prev.blocks[b])
                /\ \A k \in 1..Len(prev.blocks[b]) :
                      ir.blocks[b][k] =
                          IF prev.blocks[b][k] = root THEN new
                          ELSE prev.blocks[b][k]
                /\ UsesRedirected(new)

\* A call whose first result type converts and whose second does not: the
\* pattern failed and nothing changed.
C12_Witness ==
    /\ Converted /\ applied = 1
    /\ prev.ops[root].kind = "call"
    /\ prev.ops[root].attr.resultTypes = <<"memref", "tensor">>
    /\ prev.ops[root].operands = <<2, 1>>
    /\ result = "failure"
    /\ ir = prev

\* call(%2, %1) : (memref, chain) became call(%2, %1) : (buffer, chain).
C12_WitnessConverted ==
    /\ Converted /\ applied = 1
    /\ prev.ops[root].kind = "call"
    /\ prev.ops[root].attr.resultTypes = <<"memref", "chain">>
    /\ result = "success"
    /\ ir.ops[Len(ir.ops)].kind = "call"
    /\ ir.ops[Len(ir.ops)].attr.resultTypes = <<"buffer", "chain">>
    /\ ir.ops[Len(ir.ops)].operands = <<2, 1>>
    /\ ir.ops[4].operands = <<Len(ir.ops)>>
    /\ ir.blocks[1] = <<1, 2, Len(ir.ops), 4>>

\*--------------------------------------------------------------------------
\* Properties of the blocks of the async.execute operations
\*--------------------------------------------------------------------------

\* The blocks whose parent operation is an async.execute.
AsyncBodies(f) ==
    {b \in 1..Len(f.blocks) : IsAsyncExecuteOp(f, f.host[b])}

\* C13: an application leaves the operation list of every block whose
\* parent operation is an async.execute as it was, so that no operation
\* standing directly in such a block moves, and it creates no async.execute
\* in a block whose parent operation is an async.execute.
C13_AsyncBodiesSkipped ==
    Nested =>
        /\ \A b \in AsyncBodies(prev) :
              /\ ir.blocks[b] = prev.blocks[b]
              /\ ir.host[b] = prev.host[b]
              /\ \A k \in 1..Len(prev.blocks[b]) :
                    ParentBlock(ir, prev.blocks[b][k]) = b
        /\ \A a \in NewOps :
              ir.ops[a].kind = "async" =>
                  ParentBlock(ir, a) \notin AsyncBodies(ir)

\* A later application that outlined a run somewhere while the function held
\* an async.execute whose body is a legal run followed by the terminator.
C13_Witness ==
    /\ Nested /\ applied >= 2
    /\ result = "success"
    /\ \E a \in NewOps : ir.ops[a].kind = "async"
    /\ \E b \in AsyncBodies(prev) :
          /\ Len(prev.blocks[b]) >= 3
          /\ IsLegal(prev, target, prev.blocks[b][1])
          /\ ~IsLegal(prev, target, prev.blocks[b][Len(prev.blocks[b])])
          /\ ir.blocks[b] = prev.blocks[b]

\* C14: the body of every async.execute an application creates is one or
\* more operations that the function held on entry in a scanned block, each
\* legal for the target, followed by exactly one operation of the
\* application's own making: the terminator, which is the body's last
\* operation and stands in no other block.
C14_RegionBodyWellFormed ==
    Nested =>
        \A a \in NewOps :
            ir.ops[a].kind = "async" =>
                LET body == ir.blocks[BodyBlock(ir, a)]
                    last == Len(body)
                IN /\ last >= 2
                   /\ \A k \in 1..(last - 1) :
                         /\ body[k] \in 1..Len(prev.ops)
                         /\ ParentBlock(prev, body[k]) \in Scanned
                         /\ IsLegal(prev, target, body[k])
                         /\ ir.ops[body[k]].kind # "term"
                   /\ body[last] \in NewOps
                   /\ ir.ops[body[last]].kind = "term"
                   /\ \A c \in 1..Len(ir.blocks) :
                         body[last] \in Range(ir.blocks[c]) =>
                             c = BodyBlock(ir, a)

\* In a block nested in an operation, a run of two legal operations was
\* moved into a new region, whose body is now the two and the terminator.
C14_Witness ==
    /\ Nested /\ applied = 1
    /\ \E a \in NewOps :
          /\ ir.ops[a].kind = "async"
          /\ ParentBlock(ir, a) # 1
          /\ LET body == ir.blocks[BodyBlock(ir, a)] IN
             /\ Len(body) = 3
             /\ prev.ops[body[1]].legal /\ prev.ops[body[2]].legal
             /\ ParentBlock(prev, body[1]) = ParentBlock(ir, a)
             /\ ir.ops[body[3]].kind = "term"

====
